---- MODULE Spec2Model ----
(***************************************************************************)
(* Triggered-capture ingestion pipeline of src/maybe3.py: main() polls the *)
(* camera, stamps each grabbed frame with the next id and hands it to a    *)
(* bounded queue; writer_worker() takes the items, rotates the output      *)
(* window (image directory + CSV index) on elapsed capture time and writes *)
(* one image and one index row per frame; None is the terminal marker.     *)
(***************************************************************************)
EXTENDS Integers, Sequences, FiniteSets, TLC

\* ------------------------------------------------------------ constants
\* WINDOW_MS = 12_000 (rotate files every 12 seconds)
WINDOW_MS == 12000
\* strftime("%H%M%S_%f") keeps the time of day only: it wraps every 24 h
DAY_MS == 86400000
\* QUEUE_LEN (200 in the source), the capacity of queue.Queue, scaled down
QUEUE_LEN == 2
\* the largest number of frames the camera delivers in one run
MaxFrames == 3

\* A capture timestamp ts_ms is a float of milliseconds with microsecond
\* resolution (grab.TimeStamp / 1000.0): the pair <<whole ms, extra us>>.
TimeStamps ==
    { <<0, 0>>, <<11999, 500>>, <<12000, 0>>, <<12000, 400>>,
      <<24000, 0>>, <<DAY_MS, 0>> }

NoTs == <<-1, 0>>
NoWin == 0

\* the item (count, ts_ms, frame) and the terminal marker None
Frame(fid, ts) == [kind |-> "frame", fid |-> fid, ts |-> ts]
Sentinel == [kind |-> "None", fid |-> 0, ts |-> NoTs]

\* ------------------------------------------------------------ pure helpers
\* (ts_ms - window_start) >= W on <<ms, us>> pairs
ElapsedAtLeast(ts, start, W) ==
    LET d == ts[1] - start[1]
    IN  d > W \/ (d = W /\ ts[2] >= start[2])

\* a rotation test that compares with > instead of >=
RotateStrict(window_start, ts, W) ==
    \/ window_start = NoTs
    \/ (ts[1] - window_start[1]) > W
    \/ ((ts[1] - window_start[1]) = W /\ ts[2] > window_start[2])

\* a rotation test on the distance |ts_ms - window_start|
RotateAbs(window_start, ts, W) ==
    \/ window_start = NoTs
    \/ ElapsedAtLeast(ts, window_start, W)
    \/ ElapsedAtLeast(window_start, ts, W)

\* line 40: window_start is None or (ts_ms - window_start) >= WINDOW_MS
ShouldRotate(window_start, ts, W) ==
    window_start = NoTs \/ ElapsedAtLeast(ts, window_start, W)

\* lines 22-23: fromtimestamp(ts_ms/1000.0).strftime("%H%M%S_%f")[:-3]
\* hours, minutes, seconds of the time of day and the milliseconds; the
\* date and the microseconds below one millisecond are cut off
ts_tag(ts) ==
    LET tod == ts[1] % DAY_MS
    IN  << tod \div 3600000, (tod \div 60000) % 60, (tod \div 1000) % 60,
           tod % 1000 >>

RECURSIVE Digits(_)
Digits(n) == IF n < 10 THEN <<n>> ELSE Append(Digits(n \div 10), n % 10)

RECURSIVE ZeroPad(_, _)
ZeroPad(s, w) == IF Len(s) >= w THEN s ELSE ZeroPad(<<0>> \o s, w)

\* line 43: f"frame_{fid:06d}.png"
fname(fid) == ZeroPad(Digits(fid), 6)

\* line 30: the header row
HeaderRow == [kind |-> "header", fid |-> 0, ts |-> NoTs,
              filename |-> << <<0, 0, 0, 0>>, <<>> >>]

\* line 45: [fid, f"{ts_ms:.3f}", basename(img_dir)/fname]
DataRow(fid, ts, dir) ==
    [kind |-> "data", fid |-> fid, ts |-> ts, filename |-> <<dir, fname(fid)>>]

\* ------------------------------------------------------------ state
VARIABLES
    pc_main,      \* position of main()
    count,        \* main's frame counter
    pending,      \* the item main is putting
    q,            \* queue.Queue(QUEUE_LEN)
    pc_w,         \* position of writer_worker()
    item,         \* the item the writer took
    window_start, \* writer: start timestamp of the open window
    csv_fh,       \* writer: handle of the open index file (a window number)
    img_dir,      \* writer: image subfolder of the window (a tag)
    dirs,         \* file system: the image directories that exist
    images,       \* file system: the image files <<dir, name>> that exist
    files,        \* file system: index file of a tag -> its rows
    openHandles,  \* file system: the index file handles that are open
    windows,      \* history: the windows opened, in order
    enqueued,     \* history: the items put
    dequeued,     \* history: the items taken
    written,      \* history: the index rows written, with their window
    lastPoll,     \* history: outcome of the last RetrieveResult
    tsSource,     \* history: where the timestamp of frame id k came from
    cam_handler,  \* the BaslerHardwareTriggerCamera object (its fields)
    disk,         \* file system: output.avi and metadata.json per folder
    now,          \* the latest reading of the host clock
    lastCall      \* history: the last method called on cam_handler

vars == << pc_main, count, pending, q, pc_w, item, window_start, csv_fh,
           img_dir, dirs, images, files, openHandles, windows, enqueued,
           dequeued, written, lastPoll, tsSource, cam_handler, disk, now,
           lastCall >>

mainVars == << pc_main, count, pending, lastPoll, tsSource >>
writerVars == << pc_w, item, window_start, csv_fh, img_dir >>
fsVars == << dirs, images, files, openHandles, windows, written >>
camVars == << cam_handler, disk, now, lastCall >>

NoTag == <<-1, 0, 0, 0>>

\* ------------------------------------------ BaslerHardwareTriggerCamera
\* readings of the host clock are 0..MaxClock
MaxClock == 1
\* entries that metadata["frame_timestamps"] may hold
MaxStamps == 3

\* record_start_time, timestamp_str before the first start_recording
NoTime == -1

\* __init__: no camera, no video writer, not recording, empty metadata.
\* video_filename is the file output.avi of the folder timestamp_str names
\* (both are assigned together) and last_frame_time is never used; the
\* constructor's arguments are constants of the object
CamInit ==
    /\ cam_handler = [camera |-> "None",
                      video_writer |-> "None",
                      recording |-> FALSE,
                      frame_count |-> 0,
                      record_start_time |-> NoTime,
                      timestamp_str |-> NoTime,
                      metadata |-> << >>]
    /\ disk = << >>
    /\ now = 0
    /\ lastCall = "__init__"

Init ==
    /\ pc_main = "grab"
    /\ count = 0
    /\ pending = Sentinel
    /\ q = <<>>
    /\ pc_w = "get"
    /\ item = Sentinel
    /\ window_start = NoTs
    /\ csv_fh = NoWin
    /\ img_dir = NoTag
    /\ dirs = {}
    /\ images = {}
    /\ files = << >>
    /\ openHandles = {}
    /\ windows = <<>>
    /\ enqueued = <<>>
    /\ dequeued = <<>>
    /\ written = <<>>
    /\ lastPoll = "none"
    /\ tsSource = <<>>
    /\ CamInit

\* ------------------------------------------------------------ queue.Queue
\* a put that lets one item too many in
CanPutOneMore(queue) == Len(queue) <= QUEUE_LEN

\* Queue.put(x): blocks while the queue holds maxsize items
CanPut(queue) == Len(queue) < QUEUE_LEN

\* a get that returns only when another item is queued behind the first
CanGetSecond(queue) == Len(queue) > 1

\* Queue.get(): blocks while the queue is empty
CanGet(queue) == Len(queue) > 0

\* ------------------------------------------------------------ main()
\* lines 83-92: cam.IsGrabbing(), RetrieveResult gives a frame that
\* succeeded; ts_ms = grab.TimeStamp / 1000.0 from the camera; count += 1
SkipCount(c) == c + 2

NextCount(c) == c + 1

M_GrabFrame ==
    /\ pc_main = "grab"
    /\ count < MaxFrames
    /\ \E ts \in TimeStamps :
          /\ count' = NextCount(count)
          /\ pending' = Frame(count', ts)
    /\ tsSource' = Append(tsSource, "camera")
    /\ pc_main' = "put"
    /\ lastPoll' = "frame"
    /\ UNCHANGED camVars
    /\ UNCHANGED << q, enqueued, dequeued, writerVars, fsVars >>

\* lines 90-91: grab.TimeStamp is not there (AttributeError), ts_ms is the
\* host clock, time.time()*1000; the frame is stamped and handed off like
\* any other. Host times are drawn from the same set as camera times.
M_GrabFrameHost ==
    /\ pc_main = "grab"
    /\ count < MaxFrames
    /\ \E ts \in TimeStamps :
          /\ count' = NextCount(count)
          /\ pending' = Frame(count', ts)
    /\ tsSource' = Append(tsSource, "host")
    /\ pc_main' = "put"
    /\ lastPoll' = "frame"
    /\ UNCHANGED camVars
    /\ UNCHANGED << q, enqueued, dequeued, writerVars, fsVars >>

\* a poll that counts before it looks whether a frame was grabbed
M_GrabTimeoutCounts ==
    /\ pc_main = "grab"
    /\ count < MaxFrames
    /\ count' = NextCount(count)
    /\ pc_main' = "key"
    /\ lastPoll' = "timeout"
    /\ UNCHANGED camVars
    /\ UNCHANGED << pending, tsSource, q, enqueued, dequeued, writerVars,
                    fsVars >>

\* lines 84-85: RetrieveResult(1000, TimeoutHandling_Return) timed out or
\* the grab did not succeed: nothing is stamped or handed off
M_GrabTimeout ==
    /\ pc_main = "grab"
    /\ pc_main' = "key"
    /\ lastPoll' = "timeout"
    /\ UNCHANGED camVars
    /\ UNCHANGED << count, pending, tsSource, q, enqueued, dequeued,
                    writerVars, fsVars >>

\* a put that does not wait: on a full queue it returns at once and the
\* frame is discarded
M_PutDropping ==
    /\ pc_main = "put"
    /\ q' = IF CanPut(q) THEN Append(q, pending) ELSE q
    /\ enqueued' = IF CanPut(q) THEN Append(enqueued, pending) ELSE enqueued
    /\ pc_main' = "key"
    /\ UNCHANGED camVars
    /\ UNCHANGED << count, pending, lastPoll, tsSource, dequeued,
                    writerVars, fsVars >>

\* line 93: q.put((count, ts_ms, frame)), blocking while the queue is full
M_Put ==
    /\ pc_main = "put"
    /\ CanPut(q)
    /\ q' = Append(q, pending)
    /\ enqueued' = Append(enqueued, pending)
    /\ pc_main' = "key"
    /\ UNCHANGED camVars
    /\ UNCHANGED << count, pending, lastPoll, tsSource, dequeued,
                    writerVars, fsVars >>

\* lines 105-106: cv2.waitKey(1) sees 'q' (break) or not (next iteration)
M_Key ==
    /\ pc_main = "key"
    /\ pc_main' \in {"grab", "stop"}
    /\ UNCHANGED camVars
    /\ UNCHANGED << count, pending, lastPoll, tsSource, q, enqueued, dequeued,
                    writerVars, fsVars >>

\* line 83: cam.IsGrabbing() is false, the loop ends
M_NotGrabbing ==
    /\ pc_main = "grab"
    /\ pc_main' = "stop"
    /\ UNCHANGED camVars
    /\ UNCHANGED << count, pending, lastPoll, tsSource, q, enqueued, dequeued,
                    writerVars, fsVars >>

\* lines 82, 108: an exception inside the try block (KeyboardInterrupt, an
\* SDK error) leaves the loop through finally; a put under way is abandoned
M_Exception ==
    /\ pc_main \in {"grab", "put", "key"}
    /\ pc_main' = "stop"
    /\ UNCHANGED camVars
    /\ UNCHANGED << count, pending, lastPoll, tsSource, q, enqueued, dequeued,
                    writerVars, fsVars >>

\* line 109: cam.StopGrabbing(); cam.Close()
M_StopCamera ==
    /\ pc_main = "stop"
    /\ pc_main' = "putNone"
    /\ pending' = Sentinel
    /\ UNCHANGED camVars
    /\ UNCHANGED << count, lastPoll, tsSource, q, enqueued, dequeued,
                    writerVars, fsVars >>

\* line 110: q.put(None), blocking while the queue is full
M_PutNone ==
    /\ pc_main = "putNone"
    /\ CanPut(q)
    /\ q' = Append(q, Sentinel)
    /\ enqueued' = Append(enqueued, Sentinel)
    /\ pc_main' = "join"
    /\ UNCHANGED camVars
    /\ UNCHANGED << count, pending, lastPoll, tsSource, dequeued,
                    writerVars, fsVars >>

\* lines 111-113: t.join() returns once the writer thread has ended
M_Join ==
    /\ pc_main = "join"
    /\ pc_w \in {"done", "crashed"}
    /\ pc_main' = "closed"
    /\ UNCHANGED camVars
    /\ UNCHANGED << count, pending, lastPoll, tsSource, q, enqueued, dequeued,
                    writerVars, fsVars >>

\* ------------------------------------------------------------ writer_worker()
\* a writer that skips the marker and goes on taking
AfterGetContinue(x) == IF x.kind = "None" THEN "get" ELSE "decide"

\* lines 37-39: if item is None: break; otherwise the frame is processed
AfterGet(x) == IF x.kind = "None" THEN "final" ELSE "decide"

\* lines 36-38: item = q.get(); None ends the loop
W_Get ==
    /\ pc_w = "get"
    /\ CanGet(q)
    /\ item' = Head(q)
    /\ q' = Tail(q)
    /\ dequeued' = Append(dequeued, Head(q))
    /\ pc_w' = AfterGet(Head(q))
    /\ UNCHANGED camVars
    /\ UNCHANGED << mainVars, enqueued, window_start, csv_fh, img_dir, fsVars >>

\* lines 39-41: the rotation decision
W_Decide ==
    /\ pc_w = "decide"
    /\ pc_w' = IF ShouldRotate(window_start, item.ts, WINDOW_MS)
                 THEN "closeOld" ELSE "imwrite"
    /\ UNCHANGED camVars
    /\ UNCHANGED << mainVars, q, enqueued, dequeued, item, window_start,
                    csv_fh, img_dir, fsVars >>

\* a rotation that leaves the previous index file open
LeaveOpen(handles, fh) == handles

\* lines 18-19 and 48-49: if csv_fh: csv_fh.flush(); csv_fh.close()
CloseHandle(handles, fh) == IF fh # NoWin THEN handles \ {fh} ELSE handles

\* open_new_window, lines 18-19
W_CloseOld ==
    /\ pc_w = "closeOld"
    /\ openHandles' = CloseHandle(openHandles, csv_fh)
    /\ pc_w' = "mkdir"
    /\ UNCHANGED camVars
    /\ UNCHANGED << mainVars, q, enqueued, dequeued, item, window_start,
                    csv_fh, img_dir, dirs, images, files, windows, written >>

\* an open_new_window that makes the directory but leaves the writer's
\* img_dir as it was (img_dir missing from the nonlocal statement)
W_MkdirStaleDir ==
    /\ pc_w = "mkdir"
    /\ dirs' = dirs \cup {ts_tag(item.ts)}
    /\ pc_w' = "openCsv"
    /\ UNCHANGED camVars
    /\ UNCHANGED << mainVars, q, enqueued, dequeued, item, window_start,
                    csv_fh, img_dir, images, files, openHandles, windows,
                    written >>

\* open_new_window, lines 22-25: os.makedirs(img_dir, exist_ok=True)
W_Mkdir ==
    /\ pc_w = "mkdir"
    /\ img_dir' = ts_tag(item.ts)
    /\ dirs' = dirs \cup {img_dir'}
    /\ pc_w' = "openCsv"
    /\ UNCHANGED camVars
    /\ UNCHANGED << mainVars, q, enqueued, dequeued, item, window_start,
                    csv_fh, images, files, openHandles, windows, written >>

\* open(csv_path, "a"): creates the file, or keeps the rows of the one that
\* exists
OpenForAppend(fs, path) ==
    [p \in DOMAIN fs \cup {path} |-> IF p \in DOMAIN fs THEN fs[p] ELSE <<>>]

\* open(csv_path, "w"): creates the file, or truncates the one that exists
OpenForWriting(fs, path) ==
    [p \in DOMAIN fs \cup {path} |-> IF p = path THEN <<>> ELSE fs[p]]

\* writer.writerow(row) on the file at path
WriteRow(fs, path, row) == [fs EXCEPT ![path] = Append(@, row)]

\* open_new_window, lines 27-32: the index file burst_<ts_tag>.csv is opened
\* for writing, the header row written, window_start set; ts_tag is the
\* local computed from ts_ms at lines 22-23
W_OpenCsv ==
    /\ pc_w = "openCsv"
    /\ csv_fh' = Len(windows) + 1
    /\ LET tag == ts_tag(item.ts)
       IN  /\ windows' = Append(windows, [tag |-> tag, start |-> item.ts])
           /\ files' = WriteRow(OpenForWriting(files, tag), tag, HeaderRow)
    /\ openHandles' = openHandles \cup {csv_fh'}
    /\ window_start' = item.ts
    /\ pc_w' = "imwrite"
    /\ UNCHANGED camVars
    /\ UNCHANGED << mainVars, q, enqueued, dequeued, item, img_dir, dirs,
                    images, written >>

\* lines 43-44: cv2.imwrite(os.path.join(img_dir, fname), frame) succeeds
W_Imwrite ==
    /\ pc_w = "imwrite"
    /\ images' = images \cup {<<img_dir, fname(item.fid)>>}
    /\ pc_w' = "writerow"
    /\ UNCHANGED camVars
    /\ UNCHANGED << mainVars, q, enqueued, dequeued, item, window_start,
                    csv_fh, img_dir, dirs, files, openHandles, windows, written >>

\* lines 45-46: the index row goes to the open index file; q.task_done()
W_Writerow ==
    /\ pc_w = "writerow"
    /\ LET row == DataRow(item.fid, item.ts, img_dir)
       IN  /\ files' = WriteRow(files, windows[csv_fh].tag, row)
           /\ written' = Append(written, [row |-> row, win |-> csv_fh])
    /\ pc_w' = "get"
    /\ UNCHANGED camVars
    /\ UNCHANGED << mainVars, q, enqueued, dequeued, item, window_start,
                    csv_fh, img_dir, dirs, images, openHandles, windows >>

\* lines 48-50: the last window is flushed and closed, the thread ends
W_Final ==
    /\ pc_w = "final"
    /\ openHandles' = CloseHandle(openHandles, csv_fh)
    /\ pc_w' = "done"
    /\ UNCHANGED camVars
    /\ UNCHANGED << mainVars, q, enqueued, dequeued, item, window_start,
                    csv_fh, img_dir, dirs, images, files, windows, written >>

\* ------------------------------------------------------------ sink faults
\* line 44: cv2.imwrite returns False (unwritable path, full disk, encoder
\* failure) and writes no file; the return value is not looked at
W_ImwriteFalse ==
    /\ pc_w = "imwrite"
    /\ pc_w' = "writerow"
    /\ UNCHANGED camVars
    /\ UNCHANGED << mainVars, q, enqueued, dequeued, item, window_start,
                    csv_fh, img_dir, fsVars >>

\* lines 25, 28, 30, 44, 45: os.makedirs, open, cv2.imwrite or writerow
\* raises; nothing in writer_worker catches it, so the thread ends there
W_SinkRaises ==
    /\ pc_w \in {"mkdir", "openCsv", "imwrite", "writerow"}
    /\ pc_w' = "crashed"
    /\ UNCHANGED camVars
    /\ UNCHANGED << mainVars, q, enqueued, dequeued, item, window_start,
                    csv_fh, img_dir, fsVars >>

\* ------------------------------------------------------------ specifications
MainNext ==
    \/ M_GrabFrame \/ M_GrabTimeout \/ M_Put \/ M_Key \/ M_NotGrabbing
    \/ M_Exception \/ M_StopCamera \/ M_PutNone \/ M_Join

WriterNext ==
    \/ W_Get \/ W_Decide \/ W_CloseOld \/ W_Mkdir \/ W_OpenCsv
    \/ W_Imwrite \/ W_Writerow \/ W_Final

Next == MainNext \/ WriterNext

\* the sink always succeeds
Spec == Init /\ [][Next]_vars

NextFault == Next \/ W_ImwriteFalse \/ W_SinkRaises

\* the sink may fail
SpecFault == Init /\ [][NextFault]_vars

\* ------------------------------------------------------------ observations
FramesOf(items) == SelectSeq(items, LAMBDA x : x.kind = "frame")
MarkersOf(items) == SelectSeq(items, LAMBDA x : x.kind = "None")
DataRowsOf(rows) == SelectSeq(rows, LAMBDA r : r.kind = "data")

RECURSIVE CountDataRows(_, _)
CountDataRows(fs, paths) ==
    IF paths = {} THEN 0
    ELSE LET p == CHOOSE x \in paths : TRUE
         IN  Len(DataRowsOf(fs[p])) + CountDataRows(fs, paths \ {p})

\* the data rows of all index files on disk
TotalDataRows == CountDataRows(files, DOMAIN files)

\* the index files in the order they were first opened; the data rows they
\* hold, file after file
RECURSIVE RowsInWindowOrder(_, _)
RowsInWindowOrder(k, seen) ==
    IF k > Len(windows) THEN <<>>
    ELSE IF windows[k].tag \in seen THEN RowsInWindowOrder(k + 1, seen)
    ELSE DataRowsOf(files[windows[k].tag])
            \o RowsInWindowOrder(k + 1, seen \cup {windows[k].tag})

StrictlyIncreasingIds(rows) ==
    \A i \in 1..Len(rows) : \A j \in 1..Len(rows) :
        i < j => rows[i].fid < rows[j].fid

IsPrefix(s, t) == Len(s) <= Len(t) /\ SubSeq(t, 1, Len(s)) = s

\* ------------------------------------------------------------ claims

\* C1: drain completeness. Once main's join on the writer has returned, the
\* index files of all windows together hold exactly as many data rows as
\* frames were enqueued (nothing is dropped in this program).
C1_DrainComplete ==
    pc_main = "closed" => TotalDataRows = Len(FramesOf(enqueued))

\* the ids handed out so far, against the frames put so far
IdsContiguous ==
    /\ \A i \in 1..Len(FramesOf(enqueued)) : FramesOf(enqueued)[i].fid = i
    /\ pc_main = "put" =>
          pending.fid = Len(FramesOf(enqueued)) + 1 /\ pending.fid = count
    /\ count \in {Len(FramesOf(enqueued)), Len(FramesOf(enqueued)) + 1}

\* C2: frame ids. The ids of the frames handed to the queue are 1, 2, ..., k
\* in that order, a frame being put carries the next id, and a poll that
\* yields no frame leaves the counter alone.
C2_FrameIds ==
    [][ /\ IdsContiguous'
        /\ (pc_main = "grab" /\ lastPoll' = "timeout" /\ pc_main' = "key")
              => count' = count
        /\ count' # count => count' = count + 1 /\ lastPoll' = "frame"
      ]_vars

C2_Witness ==
    /\ Len(FramesOf(enqueued)) = MaxFrames
    /\ lastPoll = "timeout"
    /\ count = MaxFrames

\* C3: order preservation. Items are taken in the order they were put, rows
\* are written in the order the frames were taken, and the index rows read
\* file after file, in the order the windows were opened, list frame ids in
\* strictly increasing order.
C3_OrderPreserved ==
    /\ IsPrefix(dequeued, enqueued)
    /\ \A k \in 1..Len(written) : written[k].row.fid = FramesOf(dequeued)[k].fid
    /\ StrictlyIncreasingIds(RowsInWindowOrder(1, {}))

\* lines 35-46 as a function of the timestamps: frame k opens a window or
\* joins the open one
RECURSIVE WindowFold(_, _, _, _, _)
WindowFold(tss, W, k, start, acc) ==
    IF k > Len(tss) THEN acc
    ELSE IF ShouldRotate(start, tss[k], W)
         THEN WindowFold(tss, W, k + 1, tss[k], Append(acc, <<k>>))
         ELSE WindowFold(tss, W, k + 1, start,
                         [acc EXCEPT ![Len(acc)] = Append(@, k)])

\* the windows writer_worker makes of frames 1..Len(tss) with timestamps tss
WindowsOfRun(tss, W) == WindowFold(tss, W, 1, NoTs, <<>>)

SteadyRun == [i \in 1..30 |-> <<(i - 1) * 10, 0>>]

SteadyRunWindows == WindowsOfRun(SteadyRun, 100)

Range(a, b) == [i \in 1..(b - a + 1) |-> a + i - 1]

\* C4: rotation. Reading the rows in the order they were written: a row
\* that starts a window carries that window's start timestamp and, unless it
\* is the first window, lies at least WINDOW_MS after the previous window's
\* start; every other row lies less than WINDOW_MS after the start of its
\* window and is in the window of the row before it; a row names the image
\* directory of its window. The elapsed time is measured from the window's
\* start: 30 frames at 0, 10, ..., 290 with a window of 100 fall into three
\* windows of ten frames.
C4_Rotation ==
    /\ \A k \in 1..Len(written) :
          LET r == written[k].row
              w == written[k].win
              opens == (k = 1 \/ written[k - 1].win # w)
          IN  /\ w \in 1..Len(windows)
              /\ opens =>
                    /\ r.ts = windows[w].start
                    /\ w = (IF k = 1 THEN 1 ELSE written[k - 1].win + 1)
                    /\ w > 1 => ElapsedAtLeast(r.ts, windows[w - 1].start,
                                               WINDOW_MS)
              /\ ~opens => ~ElapsedAtLeast(r.ts, windows[w].start, WINDOW_MS)
              /\ r.filename[1] = windows[w].tag
    /\ Len(written) > 0 =>
          written[Len(written)].win \in {Len(windows) - 1, Len(windows)}
    /\ SteadyRunWindows = << Range(1, 10), Range(11, 20), Range(21, 30) >>

C4_Witness ==
    /\ Len(windows) = 2
    /\ windows[1].start = <<0, 0>>
    /\ windows[2].start = <<WINDOW_MS, 0>>
    /\ Len(written) = 3
    /\ written[2].row.ts = <<11999, 500>>
    /\ written[2].win = 1
    /\ written[3].win = 2

\* C5: single open window. At most one index file handle is open in any
\* state, it is the writer's current one, and while the new window's
\* directory and index file are being created no handle is open at all.
C5_SingleOpenWindow ==
    /\ Cardinality(openHandles) <= 1
    /\ openHandles \subseteq {csv_fh}
    /\ pc_w \in {"mkdir", "openCsv"} => openHandles = {}

C5_Witness ==
    /\ Len(windows) = 2
    /\ pc_w = "mkdir"
    /\ csv_fh = 2

\* C6: window naming. Any two distinct windows opened in one session have
\* distinct tags.
C6_TagsDistinct ==
    \A i \in 1..Len(windows) : \A j \in 1..Len(windows) :
        i # j => windows[i].tag # windows[j].tag

\* C7: the index never references a missing image. Every data row of every
\* index file names an image file that exists.
C7_IndexImagesExist ==
    \A p \in DOMAIN files : \A k \in 1..Len(files[p]) :
        files[p][k].kind = "data" => files[p][k].filename \in images

\* C8: backpressure. The queue never holds more than QUEUE_LEN items; a
\* put is enabled exactly when fewer than QUEUE_LEN items are queued; what
\* was put is what was taken followed by what is queued, so nothing is lost.
C8_Backpressure ==
    /\ Len(q) <= QUEUE_LEN
    /\ pc_main = "put" => (ENABLED M_Put <=> Len(q) < QUEUE_LEN)
    /\ pc_main = "putNone" => (ENABLED M_PutNone <=> Len(q) < QUEUE_LEN)
    /\ enqueued = dequeued \o q

C8_Witness ==
    /\ Len(q) = QUEUE_LEN
    /\ pc_main = "put"
    /\ ~ENABLED M_Put
    /\ pc_w = "get"

\* C9: terminal marker. At most one marker is ever put, and exactly one once
\* main has passed its put; it is put only after acquisition has stopped and
\* nothing is put behind it; once the writer has taken it the writer is
\* finishing or finished and has taken nothing after it.
C9_TerminalMarker ==
    /\ Len(MarkersOf(enqueued)) <= 1
    /\ pc_main \in {"join", "closed"} <=> Len(MarkersOf(enqueued)) = 1
    /\ \A i \in 1..Len(enqueued) :
          enqueued[i].kind = "None" => i = Len(enqueued)
    /\ \A i \in 1..Len(dequeued) :
          dequeued[i].kind = "None" =>
              /\ i = Len(dequeued)
              /\ pc_w \in {"final", "done"}
              /\ Len(written) = Len(FramesOf(dequeued))

C9_Witness ==
    /\ Len(FramesOf(dequeued)) = 2
    /\ Len(MarkersOf(dequeued)) = 1
    /\ pc_w = "done"
    /\ pc_main = "closed"

\* C10: sink write failure. Once a sink operation has failed in the writer,
\* the session accepts no further frame.
C10_FaultStopsSession ==
    [][pc_w = "crashed" => count' = count /\ enqueued' = enqueued]_vars

\* ------------------------------------------------------------ fairness
\* the shutdown sequence of main, lines 108-113
MainShutdown == M_StopCamera \/ M_PutNone \/ M_Join

\* both threads keep being scheduled: the writer thread takes its next step
\* when it can, and main carries on through its finally block; the capture
\* loop itself may go on for ever
SpecLive == Spec /\ WF_vars(WriterNext) /\ WF_vars(MainShutdown)

\* C11: shutdown liveness. With both threads scheduled fairly and a sink
\* that does not fail, once the capture loop has been left (quit key, camera
\* no longer grabbing, exception) the session reaches CLOSED with the marker
\* put and taken, the queue empty, the writer finished and every frame that
\* was put written, none of them left half done.
C11_ShutdownLiveness ==
    (pc_main = "stop") ~>
        /\ pc_main = "closed"
        /\ pc_w = "done"
        /\ q = <<>>
        /\ Len(MarkersOf(dequeued)) = 1
        /\ Len(written) = Len(FramesOf(enqueued))
        /\ \A k \in 1..Len(written) :
              written[k].row.filename \in images

C11_Witness ==
    /\ pc_main = "closed"
    /\ pc_w = "done"
    /\ Len(written) = MaxFrames
    /\ Len(windows) = 2

\* ------------------------------------------------------------ closing twice
\* lines 18-19, 48-49 on a handle that is already closed: a file object is
\* true whether open or closed, so flush() is called, and flush() on a
\* closed file raises ValueError (close() alone would do nothing)
CloseStepRaises(handles, fh) == fh # NoWin /\ fh \notin handles

\* the close step of lines 48-49 applied once more after the writer has
\* finished, to the window it closed last
W_CloseAgain ==
    /\ pc_w = "done"
    /\ pc_w' = IF CloseStepRaises(openHandles, csv_fh)
                 THEN "closeError" ELSE "done"
    /\ openHandles' = CloseHandle(openHandles, csv_fh)
    /\ UNCHANGED camVars
    /\ UNCHANGED << mainVars, q, enqueued, dequeued, item, window_start,
                    csv_fh, img_dir, dirs, images, files, windows, written >>

NextClose == Next \/ W_CloseAgain

\* the program, with the close step repeated on the last window
SpecClose == Init /\ [][NextClose]_vars

\* C12: idempotent close. The close step applied to a window that is
\* already closed raises no error.
C12_CloseIdempotent == pc_w # "closeError"

\* C13 as claimed: a put never waits, it returns at once whether or not the
\* queue is full (drop mode).
C13_PutReturnsAtOnce == pc_main = "put" => ENABLED M_Put

\* C13, amended: the program has no drop mode. A put that returns has found
\* fewer than QUEUE_LEN items queued and has appended its frame; on a full
\* queue the put does not return, so no frame is discarded and nothing is
\* counted as dropped.
C13_PutNeverDrops ==
    [][ /\ (pc_main = "put" /\ pc_main' = "key") =>
              /\ Len(q) < QUEUE_LEN
              /\ q' = Append(q, pending)
              /\ enqueued' = Append(enqueued, pending)
        /\ (pc_main = "put" /\ Len(q) = QUEUE_LEN /\ pc_main' = "put") =>
              (count' = count /\ pending' = pending /\ enqueued' = enqueued)
      ]_vars

\* capacity QUEUE_LEN, consumer paused: QUEUE_LEN frames are queued and the
\* next put is waiting
C13_Witness ==
    /\ dequeued = <<>>
    /\ Len(q) = QUEUE_LEN
    /\ pc_main = "put"
    /\ count = QUEUE_LEN + 1
    /\ pending.fid = QUEUE_LEN + 1

\* C14: index header. Every window opened has an index file; every index
\* file begins with the header row and holds no other header row, so the
\* header precedes every data row and is written once, when the file is
\* created for a window.
C14_HeaderOnce ==
    /\ \A i \in 1..Len(windows) : windows[i].tag \in DOMAIN files
    /\ \A p \in DOMAIN files :
          /\ Len(files[p]) >= 1
          /\ files[p][1] = HeaderRow
          /\ \A k \in 2..Len(files[p]) : files[p][k].kind = "data"
          /\ \E i \in 1..Len(windows) : windows[i].tag = p

C14_Witness ==
    /\ Len(windows) = 2
    /\ \E p \in DOMAIN files : Len(files[p]) = 3
    /\ pc_w = "done"

\* C15: acquisition timeouts are absorbed. A poll that ends without a frame
\* (main goes from the poll straight to the key check) leaves the frame
\* counter, the queue, the writer and the files as they were; a timeout
\* takes main to the key check and nowhere else, from where it polls again.
C15_TimeoutsAbsorbed ==
    [][ /\ (pc_main = "grab" /\ pc_main' = "key") =>
              /\ lastPoll' = "timeout"
              /\ UNCHANGED << count, pending, q, enqueued, dequeued,
                              writerVars, fsVars >>
        /\ (lastPoll # "timeout" /\ lastPoll' = "timeout") => pc_main' = "key"
        /\ (pc_main = "key" /\ lastPoll = "timeout" /\ pc_main' # "key") =>
              /\ pc_main' \in {"grab", "stop"}
              /\ UNCHANGED << count, pending, q, enqueued >>
      ]_vars

\* a poll has timed out while an accepted frame waits in the queue
C15_Witness ==
    /\ pc_main = "key"
    /\ lastPoll = "timeout"
    /\ count = 1
    /\ Len(q) = 1
    /\ pc_w = "get"

\* ------------------------------------------------------------ timestamp source
NextTs == Next \/ M_GrabFrameHost

\* the program, with frames whose timestamp falls back to the host clock
SpecTs == Init /\ [][NextTs]_vars

\* C16: timestamp fallback. Every stamped frame, whatever the source of its
\* timestamp, has the next id; and the index rows tell the two sources
\* apart: a row of a frame stamped by the host clock never carries the same
\* timestamp column as a row of a frame stamped by the camera.
C16_FallbackDistinguishable ==
    /\ Len(tsSource) = count
    /\ \A i \in 1..Len(written) : \A j \in 1..Len(written) :
          tsSource[written[i].row.fid] # tsSource[written[j].row.fid]
              => written[i].row.ts # written[j].row.ts

\* C17: final close. Once the writer has taken the marker and finished, no
\* index file handle is open; the final step is always possible; and when
\* the marker is the first item the writer takes, no window, directory,
\* image or index file has been created.
C17_FinalClose ==
    /\ pc_w = "done" => openHandles = {}
    /\ pc_w = "final" => ENABLED W_Final
    /\ (pc_w \in {"final", "done"} /\ FramesOf(dequeued) = <<>>) =>
          /\ windows = <<>>
          /\ dirs = {}
          /\ images = {}
          /\ DOMAIN files = {}
          /\ csv_fh = NoWin

\* a session of two windows, closed
C17_Witness ==
    /\ pc_main = "closed"
    /\ pc_w = "done"
    /\ csv_fh = 2
    /\ openHandles = {}

\* a < b on <<ms, us>> pairs
TsBefore(a, b) == a[1] < b[1] \/ (a[1] = b[1] /\ a[2] < b[2])

\* C18: window starts. Whatever the order of the frame timestamps, each
\* window starts strictly later than the one before it, by at least
\* WINDOW_MS; and a frame whose timestamp lies before the start of the open
\* window goes into that window, without a rotation.
C18_WindowStartsIncrease ==
    /\ \A i \in 2..Len(windows) :
          /\ TsBefore(windows[i - 1].start, windows[i].start)
          /\ ElapsedAtLeast(windows[i].start, windows[i - 1].start, WINDOW_MS)
    /\ \A k \in 2..Len(written) :
          TsBefore(written[k].row.ts, windows[written[k - 1].win].start)
              => written[k].win = written[k - 1].win
    /\ (pc_w \in {"closeOld", "mkdir", "openCsv"} /\ window_start # NoTs)
          => ~TsBefore(item.ts, window_start)

\* timestamps 12000, 0, 24000: the second frame lies before the start of
\* the open window and stays in it, the third opens the next window
C18_Witness ==
    /\ Len(written) = 3
    /\ written[1].row.ts = <<12000, 0>>
    /\ written[2].row.ts = <<0, 0>>
    /\ written[2].win = 1
    /\ written[3].row.ts = <<24000, 0>>
    /\ written[3].win = 2

\* the number a sequence of decimal digits stands for
RECURSIVE DigitsValue(_)
DigitsValue(ds) ==
    IF ds = <<>> THEN 0
    ELSE 10 * DigitsValue(SubSeq(ds, 1, Len(ds) - 1)) + ds[Len(ds)]

\* C19: image directory and index file are paired. Whenever the writer is
\* outside open_new_window, its image directory and its index file carry
\* the same window tag (both unset before the first window); the directory
\* exists; and every data row of an index file names the image directory
\* with that file's tag and the file frame_<id> with the row's own id
\* written in six digits.
C19_DirIndexPaired ==
    /\ pc_w \notin {"mkdir", "openCsv"} =>
          /\ csv_fh = NoWin <=> img_dir = NoTag
          /\ csv_fh # NoWin =>
                /\ windows[csv_fh].tag = img_dir
                /\ img_dir \in dirs
                /\ img_dir \in DOMAIN files
    /\ \A p \in DOMAIN files : \A k \in 1..Len(files[p]) :
          files[p][k].kind = "data" =>
              /\ files[p][k].filename[1] = p
              /\ Len(files[p][k].filename[2]) = 6
              /\ DigitsValue(files[p][k].filename[2]) = files[p][k].fid

\* the second window is open and holds a row
C19_Witness ==
    /\ Len(windows) = 2
    /\ pc_w = "get"
    /\ csv_fh = 2
    /\ img_dir = windows[2].tag
    /\ img_dir # windows[1].tag
    /\ Len(files[img_dir]) = 2
    /\ Len(written) = 3

\* C20: shutdown never hangs. Main is never waiting in a put on a full
\* queue when the writer thread has already ended, so a blocked put and the
\* final put of the marker can always complete.
C20_NeverHangs ==
    ~ /\ pc_main \in {"put", "putNone"}
      /\ ~CanPut(q)
      /\ pc_w \in {"crashed", "done"}

\* ------------------------------------------ BaslerHardwareTriggerCamera
\* the variables of the ingestion pipeline, which the camera object of
\* newcode.py does not touch
pipelineVars == << mainVars, q, enqueued, dequeued, writerVars, fsVars >>

\* the files of the folder os.path.join(output_folder, timestamp_str)
VideoFile(t) == << t, "output.avi" >>
MetadataFile(t) == << t, "metadata.json" >>

\* metadata.setdefault("frame_timestamps", [])
Stamps(metadata) ==
    IF "frame_timestamps" \in DOMAIN metadata
    THEN metadata["frame_timestamps"] ELSE << >>

\* setup_camera(): a camera instance is created, opened and configured,
\* and grabbing started
setup_camera ==
    /\ cam_handler.camera \in {"None", "closed"}
    /\ cam_handler' = [cam_handler EXCEPT !.camera = "grabbing"]
    /\ lastCall' = "setup_camera"
    /\ UNCHANGED << disk, now, pipelineVars >>

\* start_recording(): RuntimeError without an open camera; when not yet
\* recording a folder named after the clock reading is made, a new video
\* writer opens (and truncates) its output.avi, frame_count restarts at 0
\* and recording is set; when already recording nothing is done.
\* self.metadata is not touched
start_recording ==
    /\ IF cam_handler.camera # "grabbing"
       THEN /\ lastCall' = "start_recording: RuntimeError"
            /\ UNCHANGED << cam_handler, disk, now >>
       ELSE IF ~cam_handler.recording
       THEN \E t1 \in now..MaxClock : \E t2 \in t1..MaxClock :
               /\ cam_handler' = [cam_handler EXCEPT
                                     !.timestamp_str = t1,
                                     !.video_writer = "VideoWriter",
                                     !.frame_count = 0,
                                     !.record_start_time = t2,
                                     !.recording = TRUE]
               /\ disk' = (VideoFile(t1) :> 0) @@ disk
               /\ now' = t2
               /\ lastCall' = "start_recording"
       ELSE /\ lastCall' = "start_recording"
            /\ UNCHANGED << cam_handler, disk, now >>
    /\ UNCHANGED pipelineVars

\* lines 115-124: the keys set by stop_recording over the metadata kept so
\* far (camera_model, trigger_line, exposure_time_us, estimated_trigger_fps
\* hold constants of the object and are left out)
FinalMetadata(metadata, frame_count, elapsed) ==
    ("frame_count" :> frame_count) @@ ("record_duration_s" :> elapsed)
        @@ ("video_file" :> "output.avi") @@ metadata

\* stop_recording(): when recording, recording is cleared, the video writer
\* released, the metadata completed and dumped to metadata.json of the
\* folder of this recording; reading camera.DeviceModelName (line 115) may
\* raise when the camera has been closed, and then nothing is dumped.
\* When not recording nothing is done
stop_recording ==
    /\ IF cam_handler.recording
       THEN \E t \in now..MaxClock :
               /\ now' = t
               /\ \/ /\ cam_handler' = [cam_handler EXCEPT
                           !.recording = FALSE,
                           !.video_writer = "None",
                           !.metadata = FinalMetadata(@,
                               cam_handler.frame_count,
                               t - cam_handler.record_start_time)]
                     /\ disk' = (MetadataFile(cam_handler.timestamp_str)
                                    :> cam_handler'.metadata) @@ disk
                     /\ lastCall' = "stop_recording"
                  \/ /\ cam_handler.camera = "closed"
                     /\ cam_handler' = [cam_handler EXCEPT
                           !.recording = FALSE,
                           !.video_writer = "None"]
                     /\ disk' = disk
                     /\ lastCall' = "stop_recording: camera error"
       ELSE /\ lastCall' = "stop_recording"
            /\ UNCHANGED << cam_handler, disk, now >>
    /\ UNCHANGED pipelineVars

\* lines 153-162: the frame is written to the video, frame_count += 1 and
\* an entry with the new frame_count and the host time is appended to
\* metadata["frame_timestamps"]
LogFrame(h, t) ==
    [h EXCEPT !.frame_count = @ + 1,
              !.metadata = ("frame_timestamps" :>
                               Append(Stamps(@),
                                      [frame_index |-> h.frame_count + 1,
                                       host_time_ms |-> t])) @@ @]

\* grab_frames(): returns at once when the camera is not grabbing;
\* RetrieveResult raises on a timeout; a grab that did not succeed is only
\* released; a frame that succeeded is shown and, when recording with a
\* video writer, written, counted and logged
grab_frames ==
    /\ IF cam_handler.camera # "grabbing"
       THEN /\ lastCall' = "grab_frames: not grabbing"
            /\ UNCHANGED << cam_handler, disk, now >>
       ELSE \/ /\ lastCall' = "grab_frames: TimeoutException"
               /\ UNCHANGED << cam_handler, disk, now >>
            \/ /\ lastCall' = "grab_frames: grab failed"
               /\ UNCHANGED << cam_handler, disk, now >>
            \/ IF cam_handler.recording /\ cam_handler.video_writer # "None"
               THEN /\ Len(Stamps(cam_handler.metadata)) < MaxStamps
                    /\ \E t \in now..MaxClock :
                          /\ cam_handler' = LogFrame(cam_handler, t)
                          /\ now' = t
                    /\ disk' = [disk EXCEPT
                          ![VideoFile(cam_handler.timestamp_str)] = @ + 1]
                    /\ lastCall' = "grab_frames: recorded"
               ELSE /\ lastCall' = "grab_frames: shown"
                    /\ UNCHANGED << cam_handler, disk, now >>
    /\ UNCHANGED pipelineVars

\* close_camera(): grabbing is stopped and the camera closed
close_camera ==
    /\ cam_handler' = [cam_handler EXCEPT
          !.camera = IF @ = "grabbing" THEN "closed" ELSE @]
    /\ lastCall' = "close_camera"
    /\ UNCHANGED << disk, now, pipelineVars >>

NextCam ==
    \/ setup_camera \/ start_recording \/ grab_frames \/ stop_recording
    \/ close_camera

\* any sequence of calls on one BaslerHardwareTriggerCamera object
SpecCam == Init /\ [][NextCam]_vars

\* a start_recording step taken while recording and a stop_recording step
\* taken while not recording leave the object and the files as they were
NoOpCalls ==
    /\ (/\ cam_handler.recording
        /\ lastCall' \in {"start_recording", "start_recording: RuntimeError"})
          => UNCHANGED << cam_handler, disk >>
    /\ (/\ ~cam_handler.recording
        /\ lastCall' \in {"stop_recording", "stop_recording: camera error"})
          => UNCHANGED << cam_handler, disk >>

\* frame_count grows and frame_timestamps changes only in a grab_frames
\* step taken while recording
CountedOnlyWhileRecording ==
    (\/ cam_handler'.frame_count > cam_handler.frame_count
     \/ Stamps(cam_handler'.metadata) # Stamps(cam_handler.metadata))
        => /\ cam_handler.recording
           /\ lastCall' = "grab_frames: recorded"

\* frame_count of a metadata dictionary equals the number of its
\* frame_timestamps entries, and entry i has frame_index i
CountMatchesStamps(m) ==
    /\ m["frame_count"] = Len(Stamps(m))
    /\ \A i \in 1..Len(Stamps(m)) : Stamps(m)[i].frame_index = i

\* the metadata.json a stop_recording step writes is consistent
StopWritesConsistentMetadata ==
    (cam_handler.recording /\ lastCall' = "stop_recording")
        => CountMatchesStamps(disk'[MetadataFile(cam_handler.timestamp_str)])

\* C21: recording state of BaslerHardwareTriggerCamera. start_recording
\* while already recording and stop_recording while not recording change
\* nothing; frames are counted and logged only while recording; and after
\* any sequence of start_recording / grab_frames / stop_recording calls,
\* several start-stop cycles on one object included, the metadata that
\* stop_recording writes has frame_count equal to the number of
\* frame_timestamps entries, whose frame_index values are 1..frame_count.
C21_RecordingState ==
    [][ /\ NoOpCalls
        /\ CountedOnlyWhileRecording
        /\ StopWritesConsistentMetadata ]_vars

====
